---- MODULE Spec2Model ----
(***************************************************************************)
(* A model of models/plst.py: the image transformation network             *)
(* (StyleTransferNet), the four-slice feature extractor (Vgg16), the loss  *)
(* terms (L_feat, gram_matrix, L_style, L_tv) and the loss session         *)
(* (Loss_plst).                                                            *)
(*                                                                         *)
(* Tensors are records [shape, data, den]: a 4-tuple (or 3-tuple) shape,   *)
(* the row-major flat data as integers, and a common positive denominator  *)
(* (the element k of the tensor is data[k] / den).  Scalars returned by    *)
(* the loss terms are rationals [num, den] in lowest terms; the value      *)
(* 0/0 is the NaN that torch.mean gives for an empty tensor.               *)
(***************************************************************************)
EXTENDS Integers, Sequences, FiniteSets, TLC

VARIABLES
    t_op, t_in, t_gram, t_tv,            \* a call of one loss term
    n_pc, n_in, n_x,                     \* StyleTransferNet.forward
    v_pc, v_in, v_x, v_out, v_applied,   \* Vgg16.forward
    session, style_runs, calls           \* a Loss_plst object and its callers

termVars == <<t_op, t_in, t_gram, t_tv>>
netVars  == <<n_pc, n_in, n_x>>
vggVars  == <<v_pc, v_in, v_x, v_out, v_applied>>
lossVars == <<session, style_runs, calls>>
vars     == <<termVars, netVars, vggVars, lossVars>>

\* ------------------------------------------------------------------ bounds
\* SpecTerms: feature maps of at most MaxElems elements, values in -MaxVal..MaxVal
MaxElems == 4
MaxVal == 1
\* SpecNet, SpecVgg: batches of 1..MaxBatch images of 1..MaxDim rows and columns
MaxBatch == 2
MaxDim == 12
\* SpecLoss, SpecConc: the image batches are Image(1) .. Image(NumImages)
NumImages == 2

\* ---------------------------------------------------------------- scalars
RECURSIVE GCD(_, _)
GCD(a, b) == IF b = 0 THEN a ELSE GCD(b, a % b)

AbsInt(n) == IF n < 0 THEN -n ELSE n

\* the float NaN (0/0), which torch.mean returns for a tensor with no element
NaN == [num |-> 0, den |-> 0]

IsNaN(r) == r.den = 0

\* the outcome of a loss term that raises instead of returning a scalar
Raised == [num |-> 0, den |-> -1]

IsRaised(r) == r.den < 0

\* the rational n/d in lowest terms; d = 0 is NaN
Rat(n, d) ==
    IF d = 0 THEN NaN
    ELSE LET g == GCD(AbsInt(n), d) IN [num |-> n \div g, den |-> d \div g]

Zero == [num |-> 0, den |-> 1]

\* float addition: NaN is absorbing
RAdd(a, b) ==
    IF IsRaised(a) \/ IsRaised(b) THEN Raised
    ELSE IF IsNaN(a) \/ IsNaN(b) THEN NaN
    ELSE LET l == (a.den \div GCD(a.den, b.den)) * b.den
         IN Rat(a.num * (l \div a.den) + b.num * (l \div b.den), l)

\* the product of a Python number k and a scalar tensor r (k * r)
RScale(k, r) ==
    IF IsRaised(r) THEN Raised
    ELSE IF IsNaN(r) THEN NaN
    ELSE Rat(k * r.num, r.den)

\* r >= 0 as floats compare: false for NaN
RNonNeg(r) == r.den > 0 /\ r.num >= 0

\* ---------------------------------------------------------------- tensors
RECURSIVE Prod(_)
Prod(s) == IF s = <<>> THEN 1 ELSE s[1] * Prod(Tail(s))

RECURSIVE SumRange(_, _, _)
SumRange(s, lo, hi) ==
    IF lo > hi THEN 0
    ELSE IF lo = hi THEN s[lo]
    ELSE LET m == (lo + hi) \div 2
         IN SumRange(s, lo, m) + SumRange(s, m + 1, hi)

\* the sum of the elements of a sequence
SumSeq(s) == SumRange(s, 1, Len(s))

\* the sequence f with every element evaluated (once)
Force(f) == f \o <<>>

\* element (b, c, h, w), 0-based, of a 4-d tensor
At4(t, b, c, h, w) ==
    t.data[((b * t.shape[2] + c) * t.shape[3] + h) * t.shape[4] + w + 1]

\* element (b, i, j), 0-based, of a 3-d tensor
At3(t, b, i, j) == t.data[(b * t.shape[2] + i) * t.shape[3] + j + 1]

\* the 4-d tensor of the given shape whose element (b, c, h, w) is F(b, c, h, w)
MkTensor4(shape, den, F(_, _, _, _)) ==
    [shape |-> shape,
     den   |-> den,
     data  |-> Force([k \in 1..Prod(shape) |->
                  LET i == k - 1
                      w == i % shape[4]
                      h == (i \div shape[4]) % shape[3]
                      c == (i \div (shape[4] * shape[3])) % shape[2]
                      b == i \div (shape[4] * shape[3] * shape[2])
                  IN F(b, c, h, w)])]

\* the 3-d tensor of the given shape whose element (b, i, j) is F(b, i, j)
MkTensor3(shape, den, F(_, _, _)) ==
    [shape |-> shape,
     den   |-> den,
     data  |-> Force([k \in 1..Prod(shape) |->
                  LET i == k - 1
                      j == i % shape[3]
                      r == (i \div shape[3]) % shape[2]
                      b == i \div (shape[3] * shape[2])
                  IN F(b, r, j)])]

\* torch.mean: the mean of all elements, NaN when there is none
Mean(t) ==
    LET n == Len(t.data)
    IN IF n = 0 THEN NaN ELSE Rat(SumSeq(t.data), n * t.den)

\* two shapes broadcast when, dimension by dimension, they agree or one is 1
Broadcastable(s1, s2) ==
    /\ Len(s1) = Len(s2)
    /\ \A d \in 1..Len(s1) : s1[d] = s2[d] \/ s1[d] = 1 \/ s2[d] = 1

BroadcastShape(s1, s2) ==
    [d \in 1..Len(s1) |-> IF s1[d] = 1 THEN s2[d] ELSE s1[d]]

\* the flat index (1-based) in a tensor of shape s of the element that the
\* flat index k (1-based) of the broadcast shape bs reads
RECURSIVE SrcIndex(_, _, _, _)
SrcIndex(s, bs, i, d) ==
    IF d = 0 THEN 0
    ELSE LET rest == SrcIndex(s, bs, i \div bs[d], d - 1)
             pos  == IF s[d] = 1 THEN 0 ELSE i % bs[d]
         IN rest * s[d] + pos

BroadcastAt(t, bs, k) ==
    IF t.shape = bs THEN t.data[k]
    ELSE t.data[SrcIndex(t.shape, bs, k - 1, Len(bs)) + 1]

\* nn.MSELoss(reduction='mean'): the mean of the squared element-wise
\* difference of the two (broadcast) tensors; it raises when the shapes do
\* not broadcast
MSELoss(a, b) ==
    IF ~Broadcastable(a.shape, b.shape) THEN Raised
    ELSE
    LET bs == BroadcastShape(a.shape, b.shape)
        n  == Prod(bs)
        l  == (a.den \div GCD(a.den, b.den)) * b.den
        sq == Force([k \in 1..n |->
                 LET d == BroadcastAt(a, bs, k) * (l \div a.den)
                          - BroadcastAt(b, bs, k) * (l \div b.den)
                 IN d * d])
    IN IF n = 0 THEN NaN ELSE Rat(SumSeq(sq), n * l * l)

\* ------------------------------------------------------------- loss terms
L_feat(feats, targets) == MSELoss(feats, targets)

\* input.view(b, c, h * w): the same flat data under the shape (b, c, h*w)
View3(input) ==
    [shape |-> <<input.shape[1], input.shape[2], input.shape[3] * input.shape[4]>>,
     den   |-> input.den,
     data  |-> input.data]

\* features.transpose(1, 2)
Transpose12(f) ==
    MkTensor3(<<f.shape[1], f.shape[3], f.shape[2]>>, f.den,
              LAMBDA b, i, j : At3(f, b, j, i))

\* torch.bmm: the batch of matrix products x[b] * y[b]
Bmm(x, y) ==
    MkTensor3(<<x.shape[1], x.shape[2], y.shape[3]>>, x.den * y.den,
              LAMBDA b, i, j :
                 SumSeq([k \in 1..x.shape[3] |->
                            At3(x, b, i, k - 1) * At3(y, b, k - 1, j)]))

\* G.div(n)
Div(t, n) == [t EXCEPT !.den = @ * n]

\* a plausible slip: the second factor is a view (b, h*w, c) of the data
\* instead of the transpose
Mutant_gram_matrix(input) ==
    LET features == View3(input)
        other == [features EXCEPT
                    !.shape = <<features.shape[1], features.shape[3],
                                features.shape[2]>>]
    IN Div(Bmm(features, other), input.shape[3] * input.shape[4])

gram_matrix(input) ==
    LET features == View3(input)
        G == Bmm(features, Transpose12(features))
    IN Div(G, input.shape[3] * input.shape[4])

L_style(feats, targets) == MSELoss(gram_matrix(feats), gram_matrix(targets))

L_pixel(feats, targets) == MSELoss(feats, targets)

\* preds[:, :, :, lo:hi] (columns lo .. hi-1)
SliceW(t, lo, hi) ==
    MkTensor4(<<t.shape[1], t.shape[2], t.shape[3], hi - lo>>, t.den,
              LAMBDA b, c, h, w : At4(t, b, c, h, w + lo))

\* preds[:, :, lo:hi, :] (rows lo .. hi-1)
SliceH(t, lo, hi) ==
    MkTensor4(<<t.shape[1], t.shape[2], hi - lo, t.shape[4]>>, t.den,
              LAMBDA b, c, h, w : At4(t, b, c, h + lo, w))

\* a - b for two tensors of one shape and one denominator
Sub(a, b) ==
    [a EXCEPT !.data = Force([k \in 1..Len(a.data) |-> a.data[k] - b.data[k]])]

Abs(t) == [t EXCEPT !.data = Force([k \in 1..Len(t.data) |-> AbsInt(t.data[k])])]

L_tv(preds) ==
    LET H == preds.shape[3]
        W == preds.shape[4]
    IN RAdd(Mean(Abs(Sub(SliceW(preds, 0, W - 1), SliceW(preds, 1, W)))),
            Mean(Abs(Sub(SliceH(preds, 0, H - 1), SliceH(preds, 1, H)))))

\* ------------------------------------------------- variables not in use
NoTensor == [shape |-> <<>>, den |-> 1, data |-> <<>>]

TermIdle == t_op = "none" /\ t_in = NoTensor /\ t_gram = NoTensor /\ t_tv = Zero
NetIdle  == n_pc = "idle" /\ n_in = <<>> /\ n_x = <<>>
VggIdle  == v_pc = "idle" /\ v_in = <<>> /\ v_x = <<>> /\ v_out = <<>>
            /\ v_applied = <<>>
LossIdle == session = [built |-> FALSE] /\ style_runs = 0 /\ calls = <<>>

\* ------------------------------------------------- calls of the loss terms
\* the shapes (b, c, h, w) of at most MaxElems elements
TermShapes ==
    {s \in (1..MaxElems) \X (1..MaxElems) \X (1..MaxElems) \X (1..MaxElems) :
        Prod(s) <= MaxElems}

TermInputs ==
    UNION {{[shape |-> s, den |-> 1, data |-> d] :
              d \in [1..Prod(s) -> (-MaxVal)..MaxVal]} : s \in TermShapes}

TermInit ==
    /\ t_op = "none"
    /\ t_in \in TermInputs
    /\ t_gram = NoTensor
    /\ t_tv = Zero
    /\ NetIdle /\ VggIdle /\ LossIdle

CallGramMatrix ==
    /\ t_op = "none"
    /\ t_op' = "gram_matrix"
    /\ t_gram' = gram_matrix(t_in)
    /\ UNCHANGED <<t_in, t_tv, netVars, vggVars, lossVars>>

CallLtv ==
    /\ t_op = "none"
    /\ t_op' = "L_tv"
    /\ t_tv' = L_tv(t_in)
    /\ UNCHANGED <<t_in, t_gram, netVars, vggVars, lossVars>>

TermNext == CallGramMatrix \/ CallLtv

SpecTerms == TermInit /\ [][TermNext]_vars

\* C10: gram_matrix(x) of a (B, C, H, W) feature map is a batch of B
\* matrices of shape (C, C); entry (b, i, j) is the sum over the H*W
\* positions of x[b,i,h,w] * x[b,j,h,w], divided by H*W; and every matrix
\* is symmetric.
GramSymmetric ==
    t_op = "gram_matrix" =>
        LET B == t_in.shape[1]
            C == t_in.shape[2]
            H == t_in.shape[3]
            W == t_in.shape[4]
        IN /\ t_gram.shape = <<B, C, C>>
           /\ t_gram.den = H * W
           /\ \A b \in 0..(B - 1), i \in 0..(C - 1), j \in 0..(C - 1) :
                 /\ At3(t_gram, b, i, j) = At3(t_gram, b, j, i)
                 /\ At3(t_gram, b, i, j) =
                      SumSeq([k \in 1..(H * W) |->
                                At4(t_in, b, i, (k - 1) \div W, (k - 1) % W)
                                * At4(t_in, b, j, (k - 1) \div W, (k - 1) % W)])

\* a Gram matrix of two channels over two positions with a non-zero
\* off-diagonal entry has been computed
GramSymmetricWitness ==
    /\ t_op = "gram_matrix"
    /\ t_in.shape[2] = 2
    /\ t_in.shape[3] * t_in.shape[4] = 2
    /\ At3(t_gram, 0, 0, 1) # 0
    /\ At3(t_gram, 0, 0, 0) # At3(t_gram, 0, 1, 1)

\* C7: L_tv(image) is non-negative for every image, single rows and single
\* columns included, is 0 for a spatially constant image, and is the mean
\* absolute horizontal difference plus the mean absolute vertical difference.
TvNonNegative ==
    t_op = "L_tv" =>
        /\ RNonNeg(t_tv)
        /\ (\A k \in 1..Len(t_in.data) : t_in.data[k] = t_in.data[1]) => t_tv = Zero

\* ------------------------------------------------- StyleTransferNet, shapes
\* In this part a tensor is its shape <<N, C, H, W>>; Err is the outcome of
\* an operation that raises.
Err == <<>>

CeilDiv(a, b) == (a + b - 1) \div b

\* nn.Conv2d(cin, cout, kernel_size=k, stride=s, padding=p,
\* padding_mode='reflect'): reflection padding needs p < H and p < W
Conv2dReflect(x, cin, cout, k, s, p) ==
    IF x = Err THEN Err
    ELSE IF x[2] # cin \/ p >= x[3] \/ p >= x[4] THEN Err
    ELSE <<x[1], cout, (x[3] + 2 * p - k) \div s + 1,
                       (x[4] + 2 * p - k) \div s + 1>>

\* nn.InstanceNorm2d(c): per-sample statistics, so a single spatial element
\* raises; the shape is kept
InstanceNorm2d(x, c) ==
    IF x = Err THEN Err
    ELSE IF x[2] # c \/ x[3] * x[4] = 1 THEN Err
    ELSE x

\* nn.ReLU() keeps the shape
ReLUShape(x) == x

\* torch.nn.Upsample(scale_factor=f)
Upsample(x, f) == IF x = Err THEN Err ELSE <<x[1], x[2], x[3] * f, x[4] * f>>

\* x + residual
AddShape(x, residual) == IF x = Err \/ x # residual THEN Err ELSE x

ResidualBlock(x, channels) ==
    LET residual == x
        x1 == ReLUShape(InstanceNorm2d(
                  Conv2dReflect(x, channels, channels, 3, 1, 1), channels))
        x2 == InstanceNorm2d(
                  Conv2dReflect(x1, channels, channels, 3, 1, 1), channels)
    IN AddShape(x2, residual)

UpsampleConvLayer(x, in_channels, out_channels, kernel_size, stride, upsample) ==
    LET x1 == IF upsample # 0 THEN Upsample(x, upsample) ELSE x
    IN Conv2dReflect(x1, in_channels, out_channels, kernel_size, stride,
                     kernel_size \div 2)

conv_1(x) == Conv2dReflect(x, 3, 32, 9, 1, 4)
conv_2(x) == Conv2dReflect(x, 32, 64, 3, 2, 1)

\* a plausible slip: conv_3 built with stride 1
Mutant_conv_3(x) == Conv2dReflect(x, 64, 128, 3, 1, 1)

conv_3(x) == Conv2dReflect(x, 64, 128, 3, 2, 1)
up_1(x)   == UpsampleConvLayer(x, 128, 64, 3, 1, 2)
up_2(x)   == UpsampleConvLayer(x, 64, 32, 3, 1, 2)
conv_f(x) == Conv2dReflect(x, 32, 3, 9, 1, 4)

NetInit ==
    /\ n_in \in {<<n, 3, h, w>> : n \in 1..MaxBatch, h \in 1..MaxDim, w \in 1..MaxDim}
    /\ n_x = n_in
    /\ n_pc = "L90"
    /\ TermIdle /\ VggIdle /\ LossIdle

\* one statement of forward: at line `at`, x = y, then on to line `to`
NetAssign(at, y, to) ==
    /\ n_pc = at
    /\ n_x' = y
    /\ n_pc' = IF y = Err THEN "error" ELSE to
    /\ UNCHANGED <<n_in, termVars, vggVars, lossVars>>

Forward90 == NetAssign("L90", ReLUShape(InstanceNorm2d(conv_1(n_x), 32)), "L91")
Forward91 == NetAssign("L91", ReLUShape(InstanceNorm2d(conv_2(n_x), 64)), "L92")
Forward92 == NetAssign("L92", ReLUShape(InstanceNorm2d(conv_3(n_x), 128)), "L93")
Forward93 ==
    NetAssign("L93",
              ResidualBlock(ResidualBlock(ResidualBlock(ResidualBlock(
                  ResidualBlock(n_x, 128), 128), 128), 128), 128),
              "L94")
Forward94 == NetAssign("L94", ReLUShape(InstanceNorm2d(up_1(n_x), 64)), "L95")
Forward95 == NetAssign("L95", ReLUShape(InstanceNorm2d(up_2(n_x), 32)), "L96")
Forward96 == NetAssign("L96", conv_f(n_x), "L97")
Forward97 == NetAssign("L97", InstanceNorm2d(n_x, 3), "L98")
Forward98 ==
    /\ n_pc = "L98"
    /\ n_pc' = "done"
    /\ UNCHANGED <<n_in, n_x, termVars, vggVars, lossVars>>

NetNext ==
    \/ Forward90 \/ Forward91 \/ Forward92 \/ Forward93 \/ Forward94
    \/ Forward95 \/ Forward96 \/ Forward97 \/ Forward98

SpecNet == NetInit /\ [][NetNext]_vars

\* C1 as stated: for every image batch (N, 3, H, W) for which forward
\* returns, the output has exactly the shape of the input.
NetShapePreserved == n_pc = "done" => n_x = n_in

\* C1, amended: forward returns for every batch with H >= 5 and W >= 5 (and
\* raises otherwise); its output has shape (N, 3, 4*ceil(H/4), 4*ceil(W/4)),
\* which is the shape of the input exactly when H and W are multiples of 4.
NetShapeRoundedUp ==
    /\ n_pc = "error" => (n_in[3] < 5 \/ n_in[4] < 5)
    /\ n_pc = "done" =>
          /\ n_in[3] >= 5 /\ n_in[4] >= 5
          /\ n_x = <<n_in[1], 3, 4 * CeilDiv(n_in[3], 4), 4 * CeilDiv(n_in[4], 4)>>
          /\ (n_x = n_in) <=> (n_in[3] % 4 = 0 /\ n_in[4] % 4 = 0)

\* forward has returned for a batch of two 8 x 12 images
NetShapeWitness ==
    n_pc = "done" /\ n_in = <<2, 3, 8, 12>> /\ n_x = n_in

\* ------------------------------------------------------------ Vgg16, shapes
Conv(cin, cout) == [kind |-> "conv", cin |-> cin, cout |-> cout]
ReLU == [kind |-> "relu"]
MaxPool == [kind |-> "pool"]

\* models.vgg16(pretrained=True).features, layers 0..22: 3x3 convolutions
\* with padding 1, each followed by a ReLU, and 2x2 max poolings of stride 2
FeatsTable ==
    << Conv(3, 64), ReLU, Conv(64, 64), ReLU, MaxPool,
       Conv(64, 128), ReLU, Conv(128, 128), ReLU, MaxPool,
       Conv(128, 256), ReLU, Conv(256, 256), ReLU, Conv(256, 256), ReLU, MaxPool,
       Conv(256, 512), ReLU, Conv(512, 512), ReLU, Conv(512, 512), ReLU >>

\* feats[x]
feats(x) == FeatsTable[x + 1]

\* a plausible slip: the fourth slice starts after the pooling layer
Mutant_SliceRange(i) ==
    CASE i = 1 -> <<0, 4>> [] i = 2 -> <<4, 9>> [] i = 3 -> <<9, 16>>
      [] i = 4 -> <<17, 23>>

\* the range(lo, hi) of backbone layers that __init__ adds to slice i
SliceRange(i) ==
    CASE i = 1 -> <<0, 4>> [] i = 2 -> <<4, 9>> [] i = 3 -> <<9, 16>>
      [] i = 4 -> <<16, 23>>

\* one backbone layer on a shape; a pooling with no output element raises
LayerShape(l, x) ==
    IF x = Err THEN Err
    ELSE CASE l.kind = "conv" ->
                IF x[2] # l.cin THEN Err ELSE <<x[1], l.cout, x[3], x[4]>>
           [] l.kind = "relu" -> x
           [] l.kind = "pool" ->
                IF x[3] \div 2 = 0 \/ x[4] \div 2 = 0 THEN Err
                ELSE <<x[1], x[2], x[3] \div 2, x[4] \div 2>>

\* nn.Sequential: the layers lo .. hi-1, in order
RECURSIVE SequentialShape(_, _, _)
SequentialShape(x, lo, hi) ==
    IF lo >= hi THEN x ELSE SequentialShape(LayerShape(feats(lo), x), lo + 1, hi)

SliceShape(i, x) == SequentialShape(x, SliceRange(i)[1], SliceRange(i)[2])

\* the indices of the layers slice i runs, in order
SliceLayers(i) ==
    [k \in 1..(SliceRange(i)[2] - SliceRange(i)[1]) |-> SliceRange(i)[1] + k - 1]

VggInit ==
    /\ v_in \in {<<n, 3, h, w>> : n \in 1..MaxBatch, h \in 1..MaxDim, w \in 1..MaxDim}
    /\ v_x = v_in
    /\ v_pc = "slice1"
    /\ v_out = <<>>
    /\ v_applied = <<>>
    /\ TermIdle /\ NetIdle /\ LossIdle

\* x = self.slice_i(x); relu_i = x: at line `at`, slice i gives y, then on
\* to line `to`
VggSlice(i, at, y, to) ==
    /\ v_pc = at
    /\ v_x' = y
    /\ v_pc' = IF y = Err THEN "error" ELSE to
    /\ v_out' = IF y = Err THEN v_out ELSE Append(v_out, y)
    /\ v_applied' = v_applied \o SliceLayers(i)
    /\ UNCHANGED <<v_in, termVars, netVars, lossVars>>

VggSlice1 == VggSlice(1, "slice1", SliceShape(1, v_x), "slice2")
VggSlice2 == VggSlice(2, "slice2", SliceShape(2, v_x), "slice3")
VggSlice3 == VggSlice(3, "slice3", SliceShape(3, v_x), "slice4")
VggSlice4 == VggSlice(4, "slice4", SliceShape(4, v_x), "return")

VggReturn ==
    /\ v_pc = "return"
    /\ v_pc' = "done"
    /\ UNCHANGED <<v_in, v_x, v_out, v_applied, termVars, netVars, lossVars>>

VggNext == VggSlice1 \/ VggSlice2 \/ VggSlice3 \/ VggSlice4 \/ VggReturn

SpecVgg == VggInit /\ [][VggNext]_vars

\* the four maps Vgg16.forward has returned form a pyramid: height and
\* width strictly decrease and the channel count does not decrease from one
\* stage to the next, and the backbone layers 0..22 have each been applied
\* once, in order, by the slices [0,4), [4,9), [9,16), [16,23)
Pyramid ==
    /\ Len(v_out) = 4
    /\ v_out[4] = v_x
    /\ \A i \in 1..3 :
          /\ v_out[i + 1][3] < v_out[i][3]
          /\ v_out[i + 1][4] < v_out[i][4]
          /\ v_out[i + 1][2] >= v_out[i][2]
          /\ v_out[i][1] = v_in[1]
    /\ v_applied = [k \in 1..23 |-> k - 1]

\* C5 as stated: for every 3-channel input batch Vgg16.forward returns
\* (it does not raise) exactly four feature maps that form the pyramid.
VggReturnsPyramid ==
    /\ v_pc # "error"
    /\ v_pc = "done" => Pyramid

\* C5, amended: for every 3-channel batch of at least 8 rows and 8 columns
\* Vgg16.forward returns exactly four feature maps that form the pyramid;
\* on a smaller batch it raises in a pooling layer.
VggPyramid ==
    /\ v_pc = "error" => (v_in[3] < 8 \/ v_in[4] < 8)
    /\ v_pc = "done" => (v_in[3] >= 8 /\ v_in[4] >= 8 /\ Pyramid)

\* forward has returned the four maps of a batch of two 8 x 12 images
VggPyramidWitness ==
    /\ v_pc = "done"
    /\ v_in = <<2, 3, 8, 12>>
    /\ v_out = << <<2, 64, 8, 12>>, <<2, 128, 4, 6>>, <<2, 256, 2, 3>>,
                  <<2, 512, 1, 1>> >>

\* ------------------------------------------------------------ Vgg16, values
\* The pretrained weights are not part of the repository.  The backbone is
\* modelled with the layer kinds and slice boundaries of the code, channel
\* widths divided by 64, and one fixed ("frozen") integer kernel per
\* convolution: two non-zero taps and a bias.
ModelWidth(c) == IF c = 3 THEN 3 ELSE c \div 64

\* element (b, c, h, w) of t under zero padding
PadAt(t, b, c, h, w) ==
    IF h < 0 \/ h >= t.shape[3] \/ w < 0 \/ w >= t.shape[4] THEN 0
    ELSE At4(t, b, c, h, w)

\* the non-zero taps of the 3x3 kernel of output channel o of layer k
KernelTaps(k, o, cin) ==
    << [w |-> 1, i |-> o % cin, dy |-> 0, dx |-> 0],
       [w |-> -1, i |-> (o + 1) % cin,
        dy |-> IF k % 3 = 0 THEN 0 ELSE IF k % 3 = 1 THEN 1 ELSE -1,
        dx |-> IF k % 3 = 0 THEN 1 ELSE IF k % 3 = 1 THEN 0 ELSE -1] >>

KernelBias(k, o) == (o + k) % 2

\* nn.Conv2d(cin, cout, kernel_size=3, padding=1) with the kernel of layer k
Conv2dValue(t, k, cin, cout) ==
    MkTensor4(<<t.shape[1], cout, t.shape[3], t.shape[4]>>, t.den,
              LAMBDA b, o, h, w :
                 LET taps == KernelTaps(k, o, cin)
                 IN KernelBias(k, o)
                    + SumSeq([n \in 1..Len(taps) |->
                                taps[n].w * PadAt(t, b, taps[n].i,
                                                  h + taps[n].dy, w + taps[n].dx)]))

\* nn.ReLU
ReLUValue(t) ==
    [t EXCEPT !.data = Force([k \in 1..Len(t.data) |->
                                 IF t.data[k] < 0 THEN 0 ELSE t.data[k]])]

Max2(a, b) == IF a >= b THEN a ELSE b

\* nn.MaxPool2d(kernel_size=2, stride=2)
MaxPoolValue(t) ==
    MkTensor4(<<t.shape[1], t.shape[2], t.shape[3] \div 2, t.shape[4] \div 2>>,
              t.den,
              LAMBDA b, c, h, w :
                 Max2(Max2(At4(t, b, c, 2 * h, 2 * w), At4(t, b, c, 2 * h, 2 * w + 1)),
                      Max2(At4(t, b, c, 2 * h + 1, 2 * w),
                           At4(t, b, c, 2 * h + 1, 2 * w + 1))))

\* backbone layer k on a tensor
LayerValue(k, t) ==
    LET l == feats(k)
    IN CASE l.kind = "conv" ->
              Conv2dValue(t, k, ModelWidth(l.cin), ModelWidth(l.cout))
         [] l.kind = "relu" -> ReLUValue(t)
         [] l.kind = "pool" -> MaxPoolValue(t)

RECURSIVE SequentialValue(_, _, _)
SequentialValue(t, lo, hi) ==
    IF lo >= hi THEN t ELSE SequentialValue(LayerValue(lo, t), lo + 1, hi)

SliceValue(i, t) == SequentialValue(t, SliceRange(i)[1], SliceRange(i)[2])

\* Vgg16.forward: (relu1_2, relu2_2, relu3_3, relu4_3)
Vgg16_forward(x) ==
    LET relu1_2 == SliceValue(1, x)
        relu2_2 == SliceValue(2, relu1_2)
        relu3_3 == SliceValue(3, relu2_2)
        relu4_3 == SliceValue(4, relu3_3)
    IN <<relu1_2, relu2_2, relu3_3, relu4_3>>

\* the image batches the callers pass: 8 x 8 images of 3 channels with
\* values in -1..1, in batches of one (odd k) or two (even k)
Image(k) ==
    MkTensor4(<<IF k % 2 = 0 THEN 2 ELSE 1, 3, 8, 8>>, 1,
              LAMBDA b, c, h, w :
                 ((h * k + w * (k + 1) + c * (h + w + k) + b * (w + 1)) % 3) - 1)

ImageTable == [k \in 1..NumImages |-> Image(k)]

Images == {ImageTable[k] : k \in 1..NumImages}

\* the extractor's output on every image batch of the model, computed once
\* (the extractor is frozen: the same batch gives the same maps)
VggTable == [k \in 1..NumImages |-> Vgg16_forward(ImageTable[k])]

\* self.vgg(x): Vgg16.forward on x
SelfVgg(x) ==
    IF x \in Images
    THEN VggTable[CHOOSE k \in 1..NumImages : ImageTable[k] = x]
    ELSE Vgg16_forward(x)

\* ---------------------------------------------------------------- Loss_plst
\* the weights a session is built with (Python numbers)
Lambdas == {1, 2}

\* the callers that share the session in SpecConc
Callers == {"a", "b"}

\* Loss_plst.__init__: the fields of the new object
Loss_plst_init(vgg, style_img, lambda_c, lambda_s, lambda_tv) ==
    LET style == SelfVgg(style_img)
    IN [built         |-> TRUE,
        vgg           |-> vgg,
        style_img     |-> style_img,
        lambda_c      |-> lambda_c,
        lambda_s      |-> lambda_s,
        lambda_tv     |-> lambda_tv,
        style_relu1_2 |-> style[1],
        style_relu2_2 |-> style[2],
        style_relu3_3 |-> style[3],
        style_relu4_3 |-> style[4]]

\* the frame of a caller that is not inside extract_and_calculate_loss
IdleCall ==
    [pc |-> "idle", x |-> NoTensor, y_hat |-> NoTensor,
     content_target |-> NoTensor,
     content_relu1_2 |-> NoTensor, content_relu2_2 |-> NoTensor,
     content_relu3_3 |-> NoTensor, content_relu4_3 |-> NoTensor,
     loss_c |-> Zero, loss_s |-> Zero, loss_tv |-> Zero, ret |-> <<>>]

\* The statements of extract_and_calculate_loss, each on the frame c of
\* the call and the object self.

\* a plausible slip: the content target is taken from the style image
Mutant_Stmt229(c, self) ==
    [c EXCEPT !.content_target = SelfVgg(self.style_img)[3]]

\* _, _, content_target, _ = self.vgg(x)
Stmt229(c, self) == [c EXCEPT !.content_target = SelfVgg(c.x)[3]]

\* content_relu1_2, ..., content_relu4_3 = self.vgg(y_hat)
Stmt230(c, self) ==
    LET f == SelfVgg(c.y_hat)
    IN [c EXCEPT !.content_relu1_2 = f[1], !.content_relu2_2 = f[2],
                 !.content_relu3_3 = f[3], !.content_relu4_3 = f[4]]

\* a plausible slip: the content loss is taken against the cached style map
Mutant_Stmt231(c, self) ==
    [c EXCEPT !.loss_c = L_feat(c.content_relu3_3, self.style_relu3_3)]

\* loss_c = L_feat(content_relu3_3, content_target)
Stmt231(c, self) ==
    [c EXCEPT !.loss_c = L_feat(c.content_relu3_3, c.content_target)]

\* a plausible slip: the second stage is counted twice, the third never
Mutant_Stmt232(c, self) ==
    [c EXCEPT !.loss_s =
        RAdd(RAdd(RAdd(L_style(c.content_relu1_2, self.style_relu1_2),
                       L_style(c.content_relu2_2, self.style_relu2_2)),
                  L_style(c.content_relu2_2, self.style_relu2_2)),
             L_style(c.content_relu4_3, self.style_relu4_3))]

\* loss_s = L_style(content_relu1_2, self.style_relu1_2) + ... (four stages)
Stmt232(c, self) ==
    [c EXCEPT !.loss_s =
        RAdd(RAdd(RAdd(L_style(c.content_relu1_2, self.style_relu1_2),
                       L_style(c.content_relu2_2, self.style_relu2_2)),
                  L_style(c.content_relu3_3, self.style_relu3_3)),
             L_style(c.content_relu4_3, self.style_relu4_3))]

\* loss_tv = L_tv(y_hat)
Stmt234(c, self) == [c EXCEPT !.loss_tv = L_tv(c.y_hat)]

\* a plausible slip: the style loss is scaled by the content weight
Mutant_Stmt235(c, self) ==
    [c EXCEPT !.ret = << RScale(self.lambda_c, c.loss_c),
                         RScale(self.lambda_c, c.loss_s),
                         RScale(self.lambda_tv, c.loss_tv) >>]

\* return self.lambda_c * loss_c, self.lambda_s * loss_s, self.lambda_tv * loss_tv
Stmt235(c, self) ==
    [c EXCEPT !.ret = << RScale(self.lambda_c, c.loss_c),
                         RScale(self.lambda_s, c.loss_s),
                         RScale(self.lambda_tv, c.loss_tv) >>]

\* extract_and_calculate_loss(x, y_hat) run from start to end by one caller
ExtractAndCalculateLoss(self, x, y_hat) ==
    LET c0 == [IdleCall EXCEPT !.x = x, !.y_hat = y_hat]
        c1 == Stmt229(c0, self)
        c2 == Stmt230(c1, self)
        c3 == Stmt231(c2, self)
        c4 == Stmt232(c3, self)
        c5 == Stmt234(c4, self)
    IN Stmt235(c5, self).ret

\* a statement has raised in frame c
HasRaised(c) == IsRaised(c.loss_c) \/ IsRaised(c.loss_s) \/ IsRaised(c.loss_tv)

\* the frame after a statement: the next line, or the error exit
After(c, to) == [c EXCEPT !.pc = IF HasRaised(c) THEN "error" ELSE to]

\* Loss_plst(vgg, style_img, lambda_c, lambda_s, lambda_tv)
Construct ==
    /\ ~session.built
    /\ \E style_img \in Images, lambda_c \in Lambdas, lambda_s \in Lambdas,
          lambda_tv \in Lambdas :
          session' = Loss_plst_init("Vgg16", style_img, lambda_c, lambda_s, lambda_tv)
    /\ style_runs' = style_runs + 1
    /\ UNCHANGED <<calls, termVars, netVars, vggVars>>

\* caller p enters extract_and_calculate_loss(x, y_hat)
Call(p) ==
    /\ session.built
    /\ calls[p].pc \in {"idle", "done"}
    /\ \E x \in Images, y_hat \in Images :
          calls' = [calls EXCEPT ![p] =
                       [IdleCall EXCEPT !.pc = "L229", !.x = x, !.y_hat = y_hat]]
    /\ UNCHANGED <<session, style_runs, termVars, netVars, vggVars>>

\* a plausible slip: the content target is kept in the object, in the
\* field of the cached third style map
Mutant_Line229(p) ==
    /\ calls[p].pc = "L229"
    /\ calls' = [calls EXCEPT ![p] = After(Stmt229(calls[p], session), "L230")]
    /\ session' = [session EXCEPT
                      !.style_relu3_3 = SelfVgg(calls[p].x)[3]]
    /\ UNCHANGED <<style_runs, termVars, netVars, vggVars>>

Line229(p) ==
    /\ calls[p].pc = "L229"
    /\ calls' = [calls EXCEPT ![p] = After(Stmt229(calls[p], session), "L230")]
    /\ UNCHANGED <<session, style_runs, termVars, netVars, vggVars>>

Line230(p) ==
    /\ calls[p].pc = "L230"
    /\ calls' = [calls EXCEPT ![p] = After(Stmt230(calls[p], session), "L231")]
    /\ UNCHANGED <<session, style_runs, termVars, netVars, vggVars>>

Line231(p) ==
    /\ calls[p].pc = "L231"
    /\ calls' = [calls EXCEPT ![p] = After(Stmt231(calls[p], session), "L232")]
    /\ UNCHANGED <<session, style_runs, termVars, netVars, vggVars>>

\* a plausible slip: no cache, the style features are extracted in the call
Mutant_Line232(p) ==
    /\ calls[p].pc = "L232"
    /\ LET self == Loss_plst_init(session.vgg, session.style_img, session.lambda_c,
                                  session.lambda_s, session.lambda_tv)
       IN /\ session' = self
          /\ calls' = [calls EXCEPT ![p] = After(Stmt232(calls[p], self), "L234")]
    /\ style_runs' = style_runs + 1
    /\ UNCHANGED <<termVars, netVars, vggVars>>

Line232(p) ==
    /\ calls[p].pc = "L232"
    /\ calls' = [calls EXCEPT ![p] = After(Stmt232(calls[p], session), "L234")]
    /\ UNCHANGED <<session, style_runs, termVars, netVars, vggVars>>

Line234(p) ==
    /\ calls[p].pc = "L234"
    /\ calls' = [calls EXCEPT ![p] = After(Stmt234(calls[p], session), "L235")]
    /\ UNCHANGED <<session, style_runs, termVars, netVars, vggVars>>

Line235(p) ==
    /\ calls[p].pc = "L235"
    /\ calls' = [calls EXCEPT ![p] = After(Stmt235(calls[p], session), "done")]
    /\ UNCHANGED <<session, style_runs, termVars, netVars, vggVars>>

\* Loss_plst(vgg, style_img): the weights default to 1.0
ConstructDefault ==
    /\ ~session.built
    /\ \E style_img \in Images :
          session' = Loss_plst_init("Vgg16", style_img, 1, 1, 1)
    /\ style_runs' = style_runs + 1
    /\ UNCHANGED <<calls, termVars, netVars, vggVars>>

\* the statements of the callers
CallNext ==
    \/ \E p \in DOMAIN calls : Call(p)
    \/ \E p \in DOMAIN calls : Line229(p)
    \/ \E p \in DOMAIN calls : Line230(p)
    \/ \E p \in DOMAIN calls : Line231(p)
    \/ \E p \in DOMAIN calls : Line232(p)
    \/ \E p \in DOMAIN calls : Line234(p)
    \/ \E p \in DOMAIN calls : Line235(p)

LossNext == Construct \/ CallNext

ConcNext == ConstructDefault \/ CallNext

\* one caller
LossInit ==
    /\ session = [built |-> FALSE]
    /\ style_runs = 0
    /\ calls = [p \in {"a"} |-> IdleCall]
    /\ TermIdle /\ NetIdle /\ VggIdle

SpecLoss == LossInit /\ [][LossNext]_vars

\* several callers, their statements interleaved
ConcInit ==
    /\ session = [built |-> FALSE]
    /\ style_runs = 0
    /\ calls = [p \in Callers |-> IdleCall]
    /\ TermIdle /\ NetIdle /\ VggIdle

SpecConc == ConcInit /\ [][ConcNext]_vars

\* ------------------------------------------------------- claims, Loss_plst
Done(p) == calls[p].pc = "done"

\* C2: the cached style feature maps are written once, by the one run of
\* the extractor on self.style_img in the constructor; once the object is
\* built no step of any call changes a field of it or runs the extractor
\* on self.style_img again.
SessionWriteOnce ==
    /\ [](session.built => style_runs = 1)
    /\ [][session.built => (session' = session /\ style_runs' = style_runs)]_vars

\* a call has returned on a built session whose cache is the extractor's
\* output on the style image
SessionWriteOnceWitness ==
    /\ session.built
    /\ session.lambda_s = 2
    /\ \E p \in DOMAIN calls : Done(p) /\ calls[p].x # session.style_img
    /\ session.style_relu3_3 = Vgg16_forward(session.style_img)[3]

StyleLossAllStages ==
    \A p \in DOMAIN calls :
        /\ calls[p].pc # "error"
        /\ Done(p) =>
              LET g == Vgg16_forward(calls[p].y_hat)
                  t == Vgg16_forward(session.style_img)
              IN calls[p].ret[2] =
                    RScale(session.lambda_s,
                           RAdd(RAdd(RAdd(L_style(g[1], t[1]), L_style(g[2], t[2])),
                                     L_style(g[3], t[3])),
                                L_style(g[4], t[4])))

\* a call whose y_hat is not the style image and whose x is the style image
\* has returned a non-zero style loss on a session of style weight 2
StyleLossWitness ==
    \E p \in DOMAIN calls :
        /\ Done(p)
        /\ session.lambda_s = 2
        /\ calls[p].y_hat # session.style_img
        /\ calls[p].x = session.style_img
        /\ calls[p].ret[2].num > 0

\* the three values with the k-th doubled
DoubleAt(ret, k) == [ret EXCEPT ![k] = RScale(2, @)]

\* C6: a session that differs from this one only in that lambda_c, lambda_s
\* or lambda_tv is doubled returns, on the same (x, y_hat), the
\* corresponding value doubled and the other two unchanged.
ScalingDoubles ==
    \A p \in DOMAIN calls :
        Done(p) =>
            LET x  == calls[p].x
                y  == calls[p].y_hat
                lc == session.lambda_c
                ls == session.lambda_s
                lt == session.lambda_tv
                S(a, b, c) == Loss_plst_init(session.vgg, session.style_img, a, b, c)
            IN /\ ExtractAndCalculateLoss(S(2 * lc, ls, lt), x, y)
                    = DoubleAt(calls[p].ret, 1)
               /\ ExtractAndCalculateLoss(S(lc, 2 * ls, lt), x, y)
                    = DoubleAt(calls[p].ret, 2)
               /\ ExtractAndCalculateLoss(S(lc, ls, 2 * lt), x, y)
                    = DoubleAt(calls[p].ret, 3)

\* a call has returned three non-zero values on a session whose weights
\* are not all equal
ScalingWitness ==
    \E p \in DOMAIN calls :
        /\ Done(p)
        /\ session.lambda_c = 1 /\ session.lambda_s = 2 /\ session.lambda_tv = 2
        /\ \A k \in 1..3 : calls[p].ret[k].num > 0

\* the four maps a call extracted from y_hat and the four cached style maps
FeatureMaps(p) ==
    {calls[p].content_relu1_2, calls[p].content_relu2_2, calls[p].content_relu3_3,
     calls[p].content_relu4_3, session.style_relu1_2, session.style_relu2_2,
     session.style_relu3_3, session.style_relu4_3}

\* C8: a call with y_hat = x returns a content loss of exactly 0, whatever
\* the style image and the weights; and L_feat(a, a) = 0 and
\* L_style(a, a) = 0 for every feature map a.
IdentityLossZero ==
    \A p \in DOMAIN calls :
        Done(p) =>
            /\ calls[p].x = calls[p].y_hat => calls[p].ret[1] = Zero
            /\ \A a \in FeatureMaps(p) : L_feat(a, a) = Zero /\ L_style(a, a) = Zero

\* a call with y_hat = x, not the style image, has returned on a session
\* of content weight 2, with a non-zero style loss
IdentityLossWitness ==
    \E p \in DOMAIN calls :
        /\ Done(p)
        /\ session.lambda_c = 2
        /\ calls[p].x = calls[p].y_hat
        /\ calls[p].x # session.style_img
        /\ calls[p].ret[2].num > 0

\* what each call returns when run alone on the session built with the
\* default weights on the style image ImageTable[s], computed once
AloneTable ==
    [s \in 1..NumImages |->
       [i \in 1..NumImages |->
          [j \in 1..NumImages |->
             ExtractAndCalculateLoss(
                 Loss_plst_init("Vgg16", ImageTable[s], 1, 1, 1),
                 ImageTable[i], ImageTable[j])]]]

IndexOf(x) == CHOOSE k \in 1..NumImages : ImageTable[k] = x

\* C9: with several callers inside extract_and_calculate_loss on one
\* session, under every interleaving of their statements, no call raises,
\* each call returns the three values it returns when run alone, and no
\* statement of a call writes the session.
SharedSessionSafe ==
    /\ [](\A p \in DOMAIN calls :
            /\ calls[p].pc # "error"
            /\ Done(p) =>
                  calls[p].ret = AloneTable[IndexOf(session.style_img)]
                                           [IndexOf(calls[p].x)]
                                           [IndexOf(calls[p].y_hat)])
    /\ [][session.built => session' = session]_vars

\* caller a has returned while caller b, called with another x and another
\* y_hat, is between its two extractor runs
SharedSessionWitness ==
    /\ DOMAIN calls = Callers
    /\ Done("a")
    /\ calls["b"].pc = "L230"
    /\ calls["a"].x # calls["b"].x
    /\ calls["a"].y_hat # calls["b"].y_hat
    /\ calls["a"].ret[1].num > 0

====
